---- MODULE Spec2Model ----
(***************************************************************************)
(* A model of include/ADEKF/ADEKFUtils.h (namespace adekf):                *)
(*   getDerivator, extractJacobi, transformReferenceJacobian (both         *)
(*   overloads), isPositiveDefinite, assurePositiveDefinite, isfinite and  *)
(*   assert_finite.                                                        *)
(* Numbers are integers: the double values of the program are drawn from   *)
(* small integer sets, on which the arithmetic of the program is exact.    *)
(***************************************************************************)
EXTENDS Integers, Sequences, FiniteSets, TLC

VARIABLES
    \* getDerivator<Size>: the function-local statics, one pair per Size
    result,       \* result[s]: the static vector of Size s (line 33)
    first_call,   \* first_call[s]: the static flag of Size s (line 35)
    inst,         \* the Sizes the program instantiates getDerivator with
    pc,           \* pc[t]: where thread t is inside getDerivator
    tsz,          \* tsz[t]: the Size of the call thread t is in
    idx,          \* idx[t]: the loop variable i of line 40
    retv,         \* retv[t]: what the last call of t returned (as seen on return)
    returned,     \* the Sizes for which some call has returned the reference
    calls,        \* calls[t]: calls thread t has started
    \* extractJacobi
    ej_in, ej_out,
    \* transformReferenceJacobian
    tr_in, tr_out2, tr_out3,
    \* assurePositiveDefinite
    pd_m, pd_eps, pd_status, pd_hist, pd_writes,
    \* assert_finite
    af_args, af_k, af_status, af_examined

gdvars == <<result, first_call, inst, pc, tsz, idx, retv, returned, calls>>
ejvars == <<ej_in, ej_out>>
trvars == <<tr_in, tr_out2, tr_out3>>
pdvars == <<pd_m, pd_eps, pd_status, pd_hist, pd_writes>>
afvars == <<af_args, af_k, af_status, af_examined>>
vars == <<gdvars, ejvars, trvars, pdvars, afvars>>
nongd == <<ejvars, trvars, pdvars, afvars>>

\* no value yet; a value r is held as <<r>>
None == <<>>

\* the sequence with the elements of f, a function on 1..n
Vec(f) == f \o <<>>

(***************************************************************************)
(* Bounds of the model.                                                    *)
(***************************************************************************)
NumThreads == 2      \* threads calling getDerivator concurrently
MaxCalls == 3        \* calls of getDerivator per thread
MaxSize == 3         \* getDerivator<Size> is instantiated for Size in 1..MaxSize

Threads == 1..NumThreads
Sizes == 1..MaxSize

(***************************************************************************)
(* Dual numbers (ceres::Jet<T, N>): a scalar part a and N derivative       *)
(* components v.                                                           *)
(***************************************************************************)
Jet(a, v) == [a |-> a, v |-> v]
ZeroVec(n) == Vec([k \in 1..n |-> 0])
JetConst(x, n) == Jet(x, ZeroVec(n))
JetAdd(x, y) == Jet(x.a + y.a, Vec([k \in 1..Len(x.v) |-> x.v[k] + y.v[k]]))
JetSub(x, y) == Jet(x.a - y.a, Vec([k \in 1..Len(x.v) |-> x.v[k] - y.v[k]]))
JetMul(x, y) ==
    Jet(x.a * y.a, Vec([k \in 1..Len(x.v) |-> x.a * y.v[k] + y.a * x.v[k]]))

(***************************************************************************)
(* getDerivator<Size>() (lines 29-45), statement by statement.             *)
(***************************************************************************)
\* The statics before the first call: zero-initialised storage.
StaticResult(s) == Vec([i \in 1..s |-> JetConst(0, s)])

\* result.setZero() (line 39)
SetZero(vec) == Vec([i \in 1..Len(vec) |-> JetConst(0, Len(vec))])

\* result[i].v[i] = 1 (line 41); i is 1-based here
SetDiagWrong(vec, i) == [vec EXCEPT ![i].v[1] = 1]
SetDiag(vec, i) == [vec EXCEPT ![i].v[i] = 1]

\* a caller enters getDerivator<s>()
Enter(t, s) ==
    /\ pc[t] = "idle"
    /\ calls[t] < MaxCalls
    /\ s \in inst
    /\ pc' = [pc EXCEPT ![t] = "check"]
    /\ tsz' = [tsz EXCEPT ![t] = s]
    /\ calls' = [calls EXCEPT ![t] = @ + 1]
    /\ retv' = [retv EXCEPT ![t] = None]
    /\ UNCHANGED <<result, first_call, inst, idx, returned, nongd>>

\* if (first_call) (line 37), another (atomic test-and-set) reading of it
CheckFirstCallAtomic(t) ==
    /\ pc[t] = "check"
    /\ pc' = [pc EXCEPT ![t] = IF first_call[tsz[t]] THEN "zero" ELSE "ret"]
    /\ first_call' = [first_call EXCEPT ![tsz[t]] = FALSE]
    /\ UNCHANGED <<result, inst, tsz, idx, retv, returned, calls, nongd>>

\* if (first_call) (line 37): a plain read of the static flag
CheckFirstCall(t) ==
    /\ pc[t] = "check"
    /\ pc' = [pc EXCEPT ![t] = IF first_call[tsz[t]] THEN "zero" ELSE "ret"]
    /\ UNCHANGED <<result, first_call, inst, tsz, idx, retv, returned, calls, nongd>>

\* result.setZero(); i = 0 (lines 39-40)
DoSetZero(t) ==
    /\ pc[t] = "zero"
    /\ result' = [result EXCEPT ![tsz[t]] = SetZero(@)]
    /\ idx' = [idx EXCEPT ![t] = 1]
    /\ pc' = [pc EXCEPT ![t] = "loop"]
    /\ UNCHANGED <<first_call, inst, tsz, retv, returned, calls, nongd>>

\* one iteration of the loop of lines 40-41, or its exit
LoopStep(t) ==
    /\ pc[t] = "loop"
    /\ IF idx[t] <= tsz[t]
       THEN /\ result' = [result EXCEPT ![tsz[t]] = SetDiag(@, idx[t])]
            /\ idx' = [idx EXCEPT ![t] = @ + 1]
            /\ pc' = pc
       ELSE /\ pc' = [pc EXCEPT ![t] = "clear"]
            /\ UNCHANGED <<result, idx>>
    /\ UNCHANGED <<first_call, inst, tsz, retv, returned, calls, nongd>>

\* first_call = false (line 42)
ClearFirstCall(t) ==
    /\ pc[t] = "clear"
    /\ first_call' = [first_call EXCEPT ![tsz[t]] = FALSE]
    /\ pc' = [pc EXCEPT ![t] = "ret"]
    /\ UNCHANGED <<result, inst, tsz, idx, retv, returned, calls, nongd>>

\* return result (line 44): the caller now holds a reference to the static
Return(t) ==
    /\ pc[t] = "ret"
    /\ retv' = [retv EXCEPT ![t] = <<[size |-> tsz[t], val |-> result[tsz[t]]]>>]
    /\ returned' = returned \cup {tsz[t]}
    /\ pc' = [pc EXCEPT ![t] = "idle"]
    /\ UNCHANGED <<result, first_call, inst, tsz, idx, calls, nongd>>

\* the statics and the threads before any call
GDFresh ==
    /\ result = [s \in Sizes |-> StaticResult(s)]
    /\ first_call = [s \in Sizes |-> TRUE]
    /\ pc = [t \in Threads |-> "idle"]
    /\ tsz = [t \in Threads |-> 1]
    /\ idx = [t \in Threads |-> 1]
    /\ retv = [t \in Threads |-> None]
    /\ returned = {}
    /\ calls = [t \in Threads |-> 0]

(***************************************************************************)
(* getDerivator<Size>() as one sequential call on the statics st: what a   *)
(* caller with no concurrent caller gets.                                  *)
(***************************************************************************)
RECURSIVE FillDiag(_, _)
\* for (i = 0; i < Size; ++i) result[i].v[i] = 1 (lines 40-41), from i on
FillDiag(vec, i) ==
    IF i > Len(vec) THEN vec ELSE FillDiag(SetDiag(vec, i), i + 1)

Statics == [result |-> result, first_call |-> first_call]

getDerivatorNoSeed(st, s) == st
getDerivator(st, s) ==
    IF st.first_call[s]
    THEN [result |-> [st.result EXCEPT ![s] = FillDiag(SetZero(@), 1)],
          first_call |-> [st.first_call EXCEPT ![s] = FALSE]]
    ELSE st

(***************************************************************************)
(* Matrices are sequences of rows.                                         *)
(***************************************************************************)
Identity(n) == Vec([i \in 1..n |-> Vec([j \in 1..n |-> IF i = j THEN 1 ELSE 0])])

\* D.block<d, d>(off, 0) = B
SetBlockAtColumn0(D, off, d, B) ==
    Vec([i \in 1..Len(D) |-> Vec([j \in 1..Len(D[i]) |->
        IF i \in (off + 1)..(off + d) /\ j \in 1..d
        THEN B[i - off][j] ELSE D[i][j]])])

\* D.block<d, d>(off, off) = B
SetBlock(D, off, d, B) ==
    Vec([i \in 1..Len(D) |-> Vec([j \in 1..Len(D[i]) |->
        IF i \in (off + 1)..(off + d) /\ j \in (off + 1)..(off + d)
        THEN B[i - off][j - off] ELSE D[i][j]])])

\* v.segment<d>(off)
Segment(v, off, d) == Vec([k \in 1..d |-> v[off + k]])

(***************************************************************************)
(* extractJacobi (lines 371-380) and the matrix type it returns            *)
(* (lines 149-150, 164-165).                                               *)
(***************************************************************************)
MaxDOF == 2          \* extractJacobi is called with LDOF, RDOF in 1..MaxDOF
Dynamic == -1        \* Eigen::Dynamic, the -1 of line 165

\* dynamicMatrix<N, M>; thr is USE_EIGEN_DYNAMIC_THRESHHOLD, set by the build
dynamicMatrix(N, M, thr) == N * M > thr

\* AutoMatrixType<ScalarType, N, M>: the compile-time rows and columns
AutoMatrixType(N, M, thr) ==
    IF dynamicMatrix(N, M, thr)
    THEN [rows |-> Dynamic, cols |-> Dynamic]
    ELSE [rows |-> N, cols |-> N]

\* jacobi.row(j) = result(j).v for every j
ReadRows(vec, L) == Vec([j \in 1..L |-> vec[j].v])

\* extractJacobi<ScalarType, L, R>(vec). A fixed-size type keeps its own
\* columns; assigning an R-vector to a row of another fixed length is
\* rejected when the template is instantiated ("ill_formed": no matrix).
extractJacobi(vec, L, R, thr) ==
    LET T == AutoMatrixType(L, R, thr)
        rows == IF T.rows = Dynamic THEN L ELSE T.rows
        cols == IF T.cols = Dynamic THEN R ELSE T.cols
    IN  IF cols # R
        THEN [status |-> "ill_formed", rows |-> rows, cols |-> cols, m |-> <<>>]
        ELSE [status |-> "ok", rows |-> rows, cols |-> cols, m |-> ReadRows(vec, L)]

JetVals == {0, 1}
EJVectors(L, R) == [1..L -> [a : JetVals, v : [1..R -> JetVals]]]
EJInputs ==
    UNION {{[LDOF |-> L, RDOF |-> R, thr |-> th, vec |-> w] :
                th \in 0..(MaxDOF * MaxDOF), w \in EJVectors(L, R)} :
           L \in 1..MaxDOF, R \in 1..MaxDOF}

ExtractJacobiCall ==
    /\ ej_out = None
    /\ ej_out' = <<extractJacobi(ej_in.vec, ej_in.LDOF, ej_in.RDOF, ej_in.thr)>>
    /\ UNCHANGED <<ej_in, gdvars, trvars, pdvars, afvars>>

(***************************************************************************)
(* Manifold types.  A type is [kind, dof, subs]: an Eigen vector of dof    *)
(* rows ("vec", StateInfo of lines 83-90), a curved one-dimensional        *)
(* manifold ("curv") or a CompoundManifold ("comp") of sub-manifolds.      *)
(* A value is [x, s, subs]: coordinates x, an orientation s (curv), and    *)
(* the values of the sub-manifolds (comp).                                 *)
(***************************************************************************)
MaxTDOF == 3         \* manifold types of at most this DOF are used

VecT(n) == [kind |-> "vec", dof |-> n, subs |-> <<>>]
CurvT == [kind |-> "curv", dof |-> 1, subs |-> <<>>]

RECURSIVE SumDOF(_, _)
\* the DOFs of the first k sub-manifolds of subs, added up
SumDOF(subs, k) == IF k = 0 THEN 0 ELSE SumDOF(subs, k - 1) + subs[k].dof

\* a CompoundManifold declares the sum of its sub-manifolds' DOFs as its DOF
CompT(subs) == [kind |-> "comp", dof |-> SumDOF(subs, Len(subs)), subs |-> subs]

\* DOFOf<T> (lines 67-90, 122-123): the declared DOF of the type
DOFOf(T) == T.dof

\* operator+ of a manifold: value (+) tangent vector of dual numbers.
\* vec: x + d.  curv: x + s*d + d*d, a second-order retraction.
Boxplus(T, ref, delta) ==
    LET n == Len(delta[1].v)
    IN  IF T.kind = "vec"
        THEN [x |-> Vec([k \in 1..T.dof |-> JetAdd(JetConst(ref.x[k], n), delta[k])]),
              s |-> ref.s]
        ELSE [x |-> <<JetAdd(JetConst(ref.x[1], n),
                             JetAdd(JetMul(JetConst(ref.s, n), delta[1]),
                                    JetMul(delta[1], delta[1])))>>,
              s |-> ref.s]

\* operator- of a manifold: value (-) value, a tangent vector of dual numbers.
\* vec: y - x.  curv: s_x * (y - x).
Boxminus(T, y, ref) ==
    LET n == Len(y.x[1].v)
    IN  IF T.kind = "vec"
        THEN Vec([k \in 1..T.dof |-> JetSub(y.x[k], JetConst(ref.x[k], n))])
        ELSE <<JetMul(JetConst(ref.s, n), JetSub(y.x[1], JetConst(ref.x[1], n)))>>

\* Er1 + getDerivator<DOF>(): a vector of numbers plus a vector of dual numbers
AddDerivator(Er1, deriv) ==
    Vec([k \in 1..Len(deriv) |-> JetAdd(JetConst(Er1[k], Len(deriv)), deriv[k])])

(***************************************************************************)
(* transformReferenceJacobian(ref1, ref2, Er1) (lines 392-418).            *)
(* The value is [D, dof, st, visits]: the matrix returned, the counter dof *)
(* when the call ends, the statics of getDerivator after the call, and a   *)
(* record of the calls of the lambda calcManifoldJacobian.                 *)
(***************************************************************************)
RECURSIVE transformReferenceJacobian3(_, _, _, _, _, _)
RECURSIVE forEachManifoldWithOther3(_, _, _, _, _, _, _)

\* lines 397: extractJacobi(ref1 + (Er1 + getDerivator<DOF>()) - ref2)
Atomic3(T, ref1, ref2, Er1, thr, st) ==
    LET DOF == DOFOf(T)
        st2 == getDerivator(st, DOF)
        res == Boxminus(T, Boxplus(T, ref1, AddDerivator(Er1, st2.result[DOF])), ref2)
    IN  [D |-> extractJacobi(res, DOF, DOF, thr).m, dof |-> 0, st |-> st2,
         visits |-> <<>>]

\* the lambda of lines 406-412 with the segment taken at 0
calcManifoldJacobian3First(M, manifold, other_manifold, Er1, thr, acc) ==
    LET curDOF == DOFOf(M)
        cur_Er1 == Segment(Er1, 0, curDOF)
        sub == transformReferenceJacobian3(M, manifold, other_manifold, cur_Er1,
                                           thr, acc.st)
    IN  [D |-> SetBlock(acc.D, acc.dof, curDOF, sub.D),
         dof |-> acc.dof + curDOF,
         st |-> sub.st,
         visits |-> Append(acc.visits,
                           [off |-> acc.dof, d |-> curDOF, block |-> sub.D,
                            er |-> cur_Er1, sub |-> sub.visits])]

\* the lambda calcManifoldJacobian of lines 406-412; acc holds what it
\* captures by reference (D, dof) and the statics
calcManifoldJacobian3(M, manifold, other_manifold, Er1, thr, acc) ==
    LET curDOF == DOFOf(M)
        cur_Er1 == Segment(Er1, acc.dof, curDOF)
        sub == transformReferenceJacobian3(M, manifold, other_manifold, cur_Er1,
                                           thr, acc.st)
    IN  [D |-> SetBlock(acc.D, acc.dof, curDOF, sub.D),
         dof |-> acc.dof + curDOF,
         st |-> sub.st,
         visits |-> Append(acc.visits,
                           [off |-> acc.dof, d |-> curDOF, block |-> sub.D,
                            er |-> cur_Er1, sub |-> sub.visits])]

\* ref1.forEachManifoldWithOther(calcManifoldJacobian, ref2) (line 414),
\* from sub-manifold k on: each sub-manifold once, in declared order
forEachManifoldWithOther3(T, ref1, ref2, Er1, thr, k, acc) ==
    IF k > Len(T.subs) THEN acc
    ELSE forEachManifoldWithOther3(T, ref1, ref2, Er1, thr, k + 1,
            calcManifoldJacobian3(T.subs[k], ref1.subs[k], ref2.subs[k], Er1, thr, acc))

transformReferenceJacobian3(T, ref1, ref2, Er1, thr, st) ==
    IF T.kind # "comp"
    THEN Atomic3(T, ref1, ref2, Er1, thr, st)
    ELSE forEachManifoldWithOther3(T, ref1, ref2, Er1, thr, 1,
            [D |-> Identity(DOFOf(T)), dof |-> 0, st |-> st, visits |-> <<>>])

(***************************************************************************)
(* transformReferenceJacobian(ref1, ref2) (lines 430-455).                 *)
(***************************************************************************)
RECURSIVE transformReferenceJacobian2(_, _, _, _, _)
RECURSIVE forEachManifoldWithOther2(_, _, _, _, _, _)

\* line 435: extractJacobi(ref1 + getDerivator<DOF>() - ref2)
Atomic2(T, ref1, ref2, thr, st) ==
    LET DOF == DOFOf(T)
        st2 == getDerivator(st, DOF)
        res == Boxminus(T, Boxplus(T, ref1, st2.result[DOF]), ref2)
    IN  [D |-> extractJacobi(res, DOF, DOF, thr).m, dof |-> 0, st |-> st2,
         visits |-> <<>>]

\* the lambda calcManifoldJacobian of lines 444-449
calcManifoldJacobian2(M, manifold, other_manifold, thr, acc) ==
    LET curDOF == DOFOf(M)
        sub == transformReferenceJacobian2(M, manifold, other_manifold, thr, acc.st)
    IN  [D |-> SetBlock(acc.D, acc.dof, curDOF, sub.D),
         dof |-> acc.dof + curDOF,
         st |-> sub.st,
         visits |-> Append(acc.visits,
                           [off |-> acc.dof, d |-> curDOF, block |-> sub.D,
                            er |-> <<>>, sub |-> sub.visits])]

\* ref1.forEachManifoldWithOther(calcManifoldJacobian, ref2) (line 451)
forEachManifoldWithOther2(T, ref1, ref2, thr, k, acc) ==
    IF k > Len(T.subs) THEN acc
    ELSE forEachManifoldWithOther2(T, ref1, ref2, thr, k + 1,
            calcManifoldJacobian2(T.subs[k], ref1.subs[k], ref2.subs[k], thr, acc))

transformReferenceJacobian2(T, ref1, ref2, thr, st) ==
    IF T.kind # "comp"
    THEN Atomic2(T, ref1, ref2, thr, st)
    ELSE forEachManifoldWithOther2(T, ref1, ref2, thr, 1,
            [D |-> Identity(DOFOf(T)), dof |-> 0, st |-> st, visits |-> <<>>])

(***************************************************************************)
(* The manifold types and values the calls are made with.                  *)
(***************************************************************************)
VecDims == {1, 2}
SubCounts == {1, 2}
Atoms == {VecT(n) : n \in VecDims} \cup {CurvT}

\* the CompoundManifolds over the types of P, of DOF at most MaxTDOF
CompoundsOver(P) ==
    {CompT(q) : q \in {r \in UNION {[1..n -> P] : n \in SubCounts} :
                          SumDOF(r, Len(r)) <= MaxTDOF}}

FlatTypes == Atoms \cup CompoundsOver(Atoms)
ManifoldTypes == FlatTypes \cup CompoundsOver(FlatTypes)

CoordPatterns == {1, 3}
SignPatterns == {"neg", "alt"}
ErPatterns == {0, 1}

SignAt(sg, off) ==
    IF sg = "neg" THEN -1 ELSE IF off % 2 = 0 THEN 1 ELSE -1

RECURSIVE MkValue(_, _, _, _)
\* the value of type T whose coordinate at tangent offset o is p + o and
\* whose orientation there is SignAt(sg, o)
MkValue(T, off, p, sg) ==
    IF T.kind = "comp"
    THEN [x |-> <<>>, s |-> 1,
          subs |-> Vec([k \in 1..Len(T.subs) |->
                        MkValue(T.subs[k], off + SumDOF(T.subs, k - 1), p, sg)])]
    ELSE [x |-> Vec([k \in 1..T.dof |-> p + off + k - 1]),
          s |-> IF T.kind = "curv" THEN SignAt(sg, off) ELSE 1,
          subs |-> <<>>]

ValuesOf(T) == {MkValue(T, 0, p, sg) : p \in CoordPatterns, sg \in SignPatterns}
ErrorsOf(T) == {Vec([k \in 1..T.dof |-> e * k]) : e \in ErPatterns}

TRInputs ==
    UNION {[T : {T}, ref1 : ValuesOf(T), ref2 : ValuesOf(T), Er1 : ErrorsOf(T),
            thr : {2, MaxTDOF * MaxTDOF}] : T \in ManifoldTypes}

\* a call transformReferenceJacobian(ref1, ref2)
Call2 ==
    /\ tr_out2 = None
    /\ LET r == transformReferenceJacobian2(tr_in.T, tr_in.ref1, tr_in.ref2,
                                             tr_in.thr, Statics)
       IN  /\ tr_out2' = <<[D |-> r.D, dof |-> r.dof, visits |-> r.visits]>>
           /\ result' = r.st.result
           /\ first_call' = r.st.first_call
    /\ UNCHANGED <<inst, pc, tsz, idx, retv, returned, calls, tr_in, tr_out3,
                   ejvars, pdvars, afvars>>

\* a call transformReferenceJacobian(ref1, ref2, Er1)
Call3 ==
    /\ tr_out3 = None
    /\ LET r == transformReferenceJacobian3(tr_in.T, tr_in.ref1, tr_in.ref2,
                                             tr_in.Er1, tr_in.thr, Statics)
       IN  /\ tr_out3' = <<[D |-> r.D, dof |-> r.dof, visits |-> r.visits]>>
           /\ result' = r.st.result
           /\ first_call' = r.st.first_call
    /\ UNCHANGED <<inst, pc, tsz, idx, retv, returned, calls, tr_in, tr_out2,
                   ejvars, pdvars, afvars>>

(***************************************************************************)
(* Initial conditions of the parts a specification does not exercise.      *)
(***************************************************************************)
EJIdle == ej_in = None /\ ej_out = None
TRIdle == tr_in = None /\ tr_out2 = None /\ tr_out3 = None
PDIdle ==
    /\ pd_m = None /\ pd_eps = 0 /\ pd_status = "idle"
    /\ pd_hist = <<>> /\ pd_writes = 0
AFIdle ==
    /\ af_args = <<>> /\ af_k = 0 /\ af_status = "idle" /\ af_examined = <<>>

\* the calls of transformReferenceJacobian, from a fresh process
InitTransform ==
    /\ GDFresh /\ inst = {}
    /\ tr_in \in TRInputs /\ tr_out2 = None /\ tr_out3 = None
    /\ EJIdle /\ PDIdle /\ AFIdle
NextTransform == Call2 \/ Call3
SpecTransform == InitTransform /\ [][NextTransform]_vars

\* the calls of extractJacobi
InitJacobi ==
    /\ GDFresh /\ inst = {}
    /\ ej_in \in EJInputs /\ ej_out = None
    /\ TRIdle /\ PDIdle /\ AFIdle
NextJacobi == ExtractJacobiCall
SpecJacobi == InitJacobi /\ [][NextJacobi]_vars

(***************************************************************************)
(* Symmetric 2x2 matrices <<<<a, b>>, <<b, c>>>> with eigenvalues on a grid *)
(* of step 25 and eigenvectors along (1,0), (3,4)/5 or (4,3)/5 and their   *)
(* normals: the entries and the eigen decomposition are then integers.     *)
(***************************************************************************)
MaxEig == 2          \* eigenvalues are 25 * k for k in -MaxEig..MaxEig
MaxPDCalls == 2      \* successive calls of assurePositiveDefinite

Grid == {25 * k : k \in (-MaxEig)..MaxEig}
EpsVals == {25 * k : k \in (-1)..MaxEig}

MatMul(A, B) ==
    Vec([i \in 1..2 |-> Vec([j \in 1..2 |-> A[i][1] * B[1][j] + A[i][2] * B[2][j]])])
Diag(d) == <<<<d[1], 0>>, <<0, d[2]>>>>
Det(A) == A[1][1] * A[2][2] - A[1][2] * A[2][1]
Adj(A) == <<<<A[2][2], -A[1][2]>>, <<-A[2][1], A[1][1]>>>>

\* the columns of these are unit vectors times 5
Rotations ==
    {<<<<5, 0>>, <<0, 5>>>>, <<<<3, -4>>, <<4, 3>>>>, <<<<4, -3>>, <<3, 4>>>>}
Directions ==
    {<<5, 0>>, <<0, 5>>, <<3, 4>>, <<-4, 3>>, <<4, 3>>, <<-3, 4>>}

\* A / n for a matrix A whose entries n divides
MatDiv(A, n) ==
    LET sgn == IF n < 0 THEN -1 ELSE 1
    IN  Vec([i \in 1..2 |-> Vec([j \in 1..2 |-> (sgn * A[i][j]) \div (sgn * n)])])

\* R * diag(d) * R^-1
Conjugate(R, d) == MatDiv(MatMul(MatMul(R, Diag(d)), Adj(R)), Det(R))

PDMatrices == {Conjugate(R, <<l1, l2>>) : R \in Rotations, l1 \in Grid, l2 \in Grid}

\* Eigen::SelfAdjointEigenSolver (line 342): the eigenvalues in increasing
\* order, and a matrix whose columns are their unit eigenvectors (times 5)
SelfAdjointEigenSolver(M) ==
    LET tr == M[1][1] + M[2][2]
        roots == {l \in Grid \cup EpsVals : l * l - tr * l + Det(M) = 0}
        lo == CHOOSE l \in roots : \A m \in roots : l <= m
        hi == CHOOSE l \in roots : \A m \in roots : m <= l
        EigVec(l) == CHOOSE v \in Directions :
                        /\ (M[1][1] - l) * v[1] + M[1][2] * v[2] = 0
                        /\ M[2][1] * v[1] + (M[2][2] - l) * v[2] = 0
        vlo == IF M[1][2] = 0
               THEN (IF M[1][1] <= M[2][2] THEN <<5, 0>> ELSE <<0, 5>>)
               ELSE EigVec(lo)
        vhi == IF M[1][2] = 0
               THEN (IF M[1][1] <= M[2][2] THEN <<0, 5>> ELSE <<5, 0>>)
               ELSE EigVec(hi)
    IN  [eigenvalues |-> <<lo, hi>>,
         eigenvectors |-> <<<<vlo[1], vhi[1]>>, <<vlo[2], vhi[2]>>>>]

\* matrix.ldlt() (line 325): Eigen's pivoted LDLT of a 2x2 matrix; the sign
\* it finds and whether the factorisation succeeded
Ldlt(M) ==
    LET Abs(x) == IF x < 0 THEN -x ELSE x
        first == IF Abs(M[1][1]) >= Abs(M[2][2]) THEN 1 ELSE 2
        p == M[first][first]
        \* the sign of the second pivot, other - b*b/p
        q == Det(M) * p
        sign == IF p = 0 THEN "ZeroSign"
                ELSE IF p > 0 THEN (IF q < 0 THEN "Indefinite" ELSE "PositiveSemiDef")
                ELSE (IF q > 0 THEN "Indefinite" ELSE "NegativeSemiDef")
    IN  [success |-> (p # 0 \/ M[1][2] = 0), sign |-> sign]

\* isPositiveDefinite (lines 322-327): info() == Success && isPositive()
isPositiveDefinite(M) ==
    LET l == Ldlt(M)
    IN  l.success /\ l.sign \in {"PositiveSemiDef", "ZeroSign"}

\* the loop of lines 345-352 on one eigenvalue, clamping to a lower value
ClampLow(x, eps) == IF x < eps THEN eps - 25 ELSE x
\* the loop of lines 345-352 on one eigenvalue, comparing with <=
NeedsClampLeq(x, eps) == x <= eps

\* sV(i) < eps (line 347)
NeedsClamp(x, eps) == x < eps
\* sV(i) after the body of the loop of lines 345-352
Clamp(x, eps) == IF NeedsClamp(x, eps) THEN eps ELSE x

\* assurePositiveDefinite(matrix, eps) (lines 339-361): the matrix after the
\* call, whether it was assigned, and whether the assert of line 359 held
assurePositiveDefinite(M, eps) ==
    LET svd == SelfAdjointEigenSolver(M)
        ev == svd.eigenvalues
        sV == <<Clamp(ev[1], eps), Clamp(ev[2], eps)>>
        positive == ~NeedsClamp(ev[1], eps) /\ ~NeedsClamp(ev[2], eps)
        rec == Conjugate(svd.eigenvectors, sV)
    IN  IF positive
        THEN [m |-> M, wrote |-> FALSE, status |-> "returned"]
        ELSE [m |-> rec, wrote |-> TRUE,
              status |-> IF isPositiveDefinite(rec) THEN "returned" ELSE "aborted"]

AssurePDCall ==
    /\ pd_status \in {"ready", "returned"}
    /\ Len(pd_hist) < MaxPDCalls
    /\ \E r \in {assurePositiveDefinite(pd_m, pd_eps)} :
        /\ pd_m' = r.m
        /\ pd_status' = r.status
        /\ pd_writes' = pd_writes + (IF r.wrote THEN 1 ELSE 0)
        /\ pd_hist' = Append(pd_hist, [before |-> pd_m, after |-> r.m,
                                       wrote |-> r.wrote, status |-> r.status])
    /\ UNCHANGED <<pd_eps, gdvars, ejvars, trvars, afvars>>

InitPD ==
    /\ GDFresh /\ inst = {}
    /\ pd_m \in PDMatrices /\ pd_eps \in EpsVals /\ pd_status = "ready"
    /\ pd_hist = <<>> /\ pd_writes = 0
    /\ EJIdle /\ TRIdle /\ AFIdle
NextPD == AssurePDCall
SpecPD == InitPD /\ [][NextPD]_vars

(***************************************************************************)
(* assert_finite (lines 291-307) and isfinite (lines 283-287).  An         *)
(* argument is a matrix, given by its elements; an element is a number,    *)
(* a NaN or an infinity.                                                   *)
(***************************************************************************)
MaxArgs == 2         \* arguments of one assert_finite call
MaxElems == 2        \* elements of one argument

Elems == {"num", "nan", "inf"}
AFMatrices == UNION {[1..n -> Elems] : n \in 1..MaxElems}
AFArgLists == UNION {[1..n -> AFMatrices] : n \in 0..MaxArgs}

\* isfinite(matrix): matrix.allFinite(), which takes an infinity for finite
isfiniteNoInf(matrix) == \A i \in 1..Len(matrix) : matrix[i] # "nan"
\* isfinite(matrix): matrix.allFinite() (line 286)
isfinite(matrix) == \A i \in 1..Len(matrix) : matrix[i] = "num"

\* the caller calls assert_finite(args...)
AFCall ==
    /\ af_status = "ready"
    /\ af_status' = "running"
    /\ UNCHANGED <<af_args, af_k, af_examined, gdvars, ejvars, trvars, pdvars>>

\* one level of the recursion: the overload of lines 302-307 on the
\* arguments after the first af_k, or the overload of lines 291-293
AFStep ==
    /\ af_status = "running"
    /\ IF af_k = Len(af_args)
       THEN /\ af_status' = "returned"
            /\ UNCHANGED <<af_k, af_examined>>
       ELSE /\ af_examined' = Append(af_examined, af_k + 1)
            /\ IF isfinite(af_args[af_k + 1])
               THEN af_k' = af_k + 1 /\ af_status' = af_status
               ELSE af_status' = "aborted" /\ af_k' = af_k
    /\ UNCHANGED <<af_args, gdvars, ejvars, trvars, pdvars>>

InitFinite ==
    /\ GDFresh /\ inst = {}
    /\ af_args \in AFArgLists /\ af_k = 0 /\ af_status = "ready"
    /\ af_examined = <<>>
    /\ EJIdle /\ TRIdle /\ PDIdle
NextFinite == AFCall \/ AFStep
SpecFinite == InitFinite /\ [][NextFinite]_vars

(***************************************************************************)
(* getDerivator called by one thread, and by all threads.                  *)
(***************************************************************************)
\* one thread calls getDerivator<Size>() for any Sizes, call after call
InitSeq ==
    /\ GDFresh /\ inst = Sizes
    /\ EJIdle /\ TRIdle /\ PDIdle /\ AFIdle
NextSeq ==
    \/ \E s \in Sizes : Enter(1, s)
    \/ CheckFirstCall(1)
    \/ DoSetZero(1)
    \/ LoopStep(1)
    \/ ClearFirstCall(1)
    \/ Return(1)
SpecSeq == InitSeq /\ [][NextSeq]_vars

\* all threads call getDerivator<Size>() for one Size
Init ==
    /\ GDFresh /\ inst \in {{s} : s \in Sizes}
    /\ EJIdle /\ TRIdle /\ PDIdle /\ AFIdle
Next ==
    \E t \in Threads :
        \/ \E s \in Sizes : Enter(t, s)
        \/ CheckFirstCall(t)
        \/ DoSetZero(t)
        \/ LoopStep(t)
        \/ ClearFirstCall(t)
        \/ Return(t)
Spec == Init /\ [][Next]_vars

(***************************************************************************)
(* The properties.                                                         *)
(***************************************************************************)
\* the identity seed of dimension s: element i has scalar part 0 and the
\* i-th standard basis vector as derivative
IdentitySeed(s) ==
    [i \in 1..s |-> [a |-> 0, v |-> [k \in 1..s |-> IF k = i THEN 1 ELSE 0]]]

UnitMatrix(n) == [i \in 1..n |-> [j \in 1..n |-> IF i = j THEN 1 ELSE 0]]

InitBlock == {"zero", "loop", "clear"}

\* C1: with one thread calling, every call of getDerivator<Size>() returns
\* the identity seed of dimension Size, and once a call for a Size has
\* returned no later step writes the cache of that Size.
C1_Returned ==
    retv[1] # None =>
        /\ Len(retv[1][1].val) = retv[1][1].size
        /\ retv[1][1].val = IdentitySeed(retv[1][1].size)
C1_NoLaterWrite == \A s \in returned : result'[s] = result[s]
C1_SequentialDerivator == [](C1_Returned) /\ [][C1_NoLaterWrite]_vars

\* a second call for the same Size has returned
C1_Witness ==
    /\ calls[1] = 2 /\ pc[1] = "idle" /\ retv[1] # None
    /\ returned = {2}

\* C2: the check of first_call and the initialization are not atomic: the
\* step in which a thread reads first_call = true and enters the
\* initialization block leaves first_call true for the other threads.
C2_CheckNotAtomic ==
    [][\A t \in Threads :
          (pc[t] = "check" /\ pc'[t] = "zero") => first_call'[tsz[t]]]_vars

\* two threads are inside the initialization block of the same Size
C2_Witness ==
    \E t, u \in Threads :
        /\ t # u /\ tsz[t] = tsz[u]
        /\ pc[t] \in InitBlock /\ pc[u] \in InitBlock

\* C10: once a call has returned the reference to the cache of a Size, the
\* cache of that Size is the identity seed in every later state.
C10_CacheStable == \A s \in returned : result[s] = IdentitySeed(s)

\* C3: extractJacobi returns a matrix of LDOF rows and RDOF columns whose
\* row j is the derivative vector of element j, whatever the threshold.
C3_ExtractJacobiShape ==
    ej_out # None =>
        /\ ej_out[1].status = "ok"
        /\ ej_out[1].rows = ej_in.LDOF
        /\ ej_out[1].cols = ej_in.RDOF
        /\ Len(ej_out[1].m) = ej_in.LDOF
        /\ \A j \in 1..ej_in.LDOF : ej_out[1].m[j] = ej_in.vec[j].v

\* the statics of a process that has not called getDerivator
FreshStatics ==
    [result |-> [s \in Sizes |-> StaticResult(s)], first_call |-> [s \in Sizes |-> TRUE]]

ZeroError(E) == \A k \in 1..Len(E) : E[k] = 0

\* C4: transformReferenceJacobian(ref, ref), and
\* transformReferenceJacobian(ref, ref, Er1) with Er1 = 0, return the
\* DOF x DOF identity matrix.
C4_IdentityReference ==
    tr_in.ref1 = tr_in.ref2 =>
        /\ tr_out2 # None => tr_out2[1].D = UnitMatrix(tr_in.T.dof)
        /\ (tr_out3 # None /\ ZeroError(tr_in.Er1)) =>
                tr_out3[1].D = UnitMatrix(tr_in.T.dof)

\* both overloads have returned for a nested composite with a curved part
C4_Witness ==
    /\ tr_in.ref1 = tr_in.ref2 /\ ZeroError(tr_in.Er1)
    /\ tr_out2 # None /\ tr_out3 # None
    /\ tr_in.T = CompT(<<CompT(<<CurvT, VecT(1)>>), CurvT>>)

\* the entries (i, j) of a matrix of a composite type that lie in no
\* diagonal block of its sub-manifolds
InBlock(T, i, j) ==
    \E k \in 1..Len(T.subs) :
        /\ i \in (SumDOF(T.subs, k - 1) + 1)..SumDOF(T.subs, k)
        /\ j \in (SumDOF(T.subs, k - 1) + 1)..SumDOF(T.subs, k)

C5_BlockDiagonal(T, out) ==
    /\ Len(out.D) = T.dof
    /\ \A i \in 1..T.dof : Len(out.D[i]) = T.dof
    /\ Len(out.visits) = Len(T.subs)
    /\ out.dof = T.dof
    /\ \A k \in 1..Len(T.subs) :
        /\ out.visits[k].off = SumDOF(T.subs, k - 1)
        /\ out.visits[k].d = T.subs[k].dof
        /\ \A i, j \in 1..T.subs[k].dof :
              out.D[out.visits[k].off + i][out.visits[k].off + j]
                  = out.visits[k].block[i][j]
    /\ \A i, j \in 1..T.dof : ~InBlock(T, i, j) => out.D[i][j] = 0

\* C5: for a CompoundManifold the matrix returned is block-diagonal: the
\* k-th sub-manifold pair visited contributes its own Jacobian at rows and
\* columns [o_k, o_k + d_k), o_k the sum of the DOFs before it; each
\* sub-manifold is visited once, the offset ends at DOF, and every entry
\* outside the blocks is zero.  Two 1-D additive scalars (1,2) against
\* (3,4) give the 2x2 identity.
C5_CompositeBlocks ==
    tr_in.T.kind = "comp" =>
        /\ tr_out2 # None =>
            /\ C5_BlockDiagonal(tr_in.T, tr_out2[1])
            /\ \A k \in 1..Len(tr_in.T.subs) :
                  tr_out2[1].visits[k].block =
                      transformReferenceJacobian2(tr_in.T.subs[k], tr_in.ref1.subs[k],
                          tr_in.ref2.subs[k], tr_in.thr, FreshStatics).D
            /\ (/\ tr_in.T = CompT(<<VecT(1), VecT(1)>>)
                /\ tr_in.ref1.subs[1].x = <<1>> /\ tr_in.ref1.subs[2].x = <<2>>
                /\ tr_in.ref2.subs[1].x = <<3>> /\ tr_in.ref2.subs[2].x = <<4>>)
                    => tr_out2[1].D = UnitMatrix(2)
        /\ tr_out3 # None => C5_BlockDiagonal(tr_in.T, tr_out3[1])

\* a composite of a composite and a curved manifold, whose matrix is not
\* the identity, has been transformed by both overloads
C5_Witness ==
    /\ tr_in.T = CompT(<<CompT(<<VecT(1), CurvT>>), CurvT>>)
    /\ tr_out2 # None /\ tr_out3 # None
    /\ tr_out2[1].D # UnitMatrix(3)
    /\ tr_out3[1].D # tr_out2[1].D

RECURSIVE SameVisits(_, _)
\* the two records of visits name the same offsets, dimensions and blocks
SameVisits(v, w) ==
    /\ Len(v) = Len(w)
    /\ \A k \in 1..Len(v) :
        /\ v[k].off = w[k].off /\ v[k].d = w[k].d /\ v[k].block = w[k].block
        /\ SameVisits(v[k].sub, w[k].sub)

RECURSIVE SlicesOf(_, _)
\* every visit was passed the slice E[off : off + d] of the error E of the
\* call that made it
SlicesOf(v, E) ==
    \A k \in 1..Len(v) :
        /\ v[k].er = SubSeq(E, v[k].off + 1, v[k].off + v[k].d)
        /\ SlicesOf(v[k].sub, v[k].er)

\* C9: the two-argument overload is the three-argument overload with
\* Er1 = 0: the same sub-manifold pairs in the same order at the same
\* offsets, the same matrix; the three-argument overload passes the slice
\* Er1[o : o + d] to the sub-manifold at offset o of dimension d.
C9_OverloadsAgree ==
    /\ (tr_out2 # None /\ tr_out3 # None /\ ZeroError(tr_in.Er1)) =>
            /\ tr_out2[1].D = tr_out3[1].D
            /\ tr_out2[1].dof = tr_out3[1].dof
            /\ SameVisits(tr_out2[1].visits, tr_out3[1].visits)
    /\ tr_out3 # None => SlicesOf(tr_out3[1].visits, tr_in.Er1)

\* both overloads have returned a matrix other than the identity for a
\* nested composite, with Er1 = 0
C9_Witness ==
    /\ tr_out2 # None /\ tr_out3 # None /\ ZeroError(tr_in.Er1)
    /\ tr_in.T = CompT(<<CurvT, CompT(<<VecT(1), CurvT>>)>>)
    /\ tr_in.ref1 # tr_in.ref2
    /\ tr_out3[1].D # UnitMatrix(3)

\* the eigenvalues of a symmetric 2x2 matrix, in increasing order: the
\* roots of its characteristic polynomial
EigenvaluesOf(M) ==
    LET roots == {l \in Grid \cup EpsVals :
                     l * l - (M[1][1] + M[2][2]) * l + Det(M) = 0}
    IN  <<CHOOSE l \in roots : \A m \in roots : l <= m,
          CHOOSE l \in roots : \A m \in roots : m <= l>>

AtLeast(x, eps) == IF x < eps THEN eps ELSE x

\* C6: when a symmetric matrix has an eigenvalue below eps and
\* assurePositiveDefinite(M, eps) returns, every eigenvalue of M is >= eps
\* and isPositiveDefinite(M) is true: the eigenvalues below eps have become
\* eps, the others are kept, and M is the reconstruction from the original
\* eigenvectors and the clamped eigenvalues.
C6_Postcondition ==
    \A i \in 1..Len(pd_hist) :
        LET h == pd_hist[i]
            ev == EigenvaluesOf(h.before)
            want == <<AtLeast(ev[1], pd_eps), AtLeast(ev[2], pd_eps)>>
        IN  (h.status = "returned" /\ (ev[1] < pd_eps \/ ev[2] < pd_eps)) =>
                /\ isPositiveDefinite(h.after)
                /\ \A k \in 1..2 : EigenvaluesOf(h.after)[k] >= pd_eps
                /\ EigenvaluesOf(h.after) = want
                /\ h.wrote
                /\ h.after = Conjugate(SelfAdjointEigenSolver(h.before).eigenvectors, want)

\* a call has clamped one eigenvalue of a matrix that is not diagonal, kept
\* the other, and returned
C6_Witness ==
    /\ Len(pd_hist) >= 1
    /\ pd_hist[1].status = "returned" /\ pd_hist[1].wrote
    /\ pd_hist[1].before[1][2] # 0
    /\ EigenvaluesOf(pd_hist[1].before)[1] < pd_eps
    /\ EigenvaluesOf(pd_hist[1].before)[2] > pd_eps
    /\ pd_hist[1].after # pd_hist[1].before

\* C7: a second call of assurePositiveDefinite with the same eps leaves the
\* matrix as the first call left it, and a call on a matrix with no
\* eigenvalue below eps returns without writing the matrix.
C7_Idempotent ==
    /\ (Len(pd_hist) >= 2 /\ pd_hist[2].status = "returned") =>
            /\ pd_hist[2].after = pd_hist[1].after
            /\ ~pd_hist[2].wrote
    /\ \A i \in 1..Len(pd_hist) :
            LET ev == EigenvaluesOf(pd_hist[i].before)
            IN  (ev[1] >= pd_eps /\ ev[2] >= pd_eps) =>
                    /\ pd_hist[i].status = "returned"
                    /\ ~pd_hist[i].wrote
                    /\ pd_hist[i].after = pd_hist[i].before
    /\ pd_writes <= 1

\* two calls in succession, the first of which rewrote the matrix
C7_Witness ==
    /\ Len(pd_hist) = 2
    /\ pd_hist[1].wrote /\ pd_hist[1].after # pd_hist[1].before
    /\ pd_hist[2].status = "returned"

\* an argument with a NaN or an infinite element
NotFinite(matrix) == \E i \in 1..Len(matrix) : matrix[i] \in {"nan", "inf"}

\* C8: assert_finite examines its arguments from left to right and aborts at
\* the first one with a NaN or infinite element, examining none after it;
\* when all are finite it returns after examining all of them; with no
\* argument it returns having examined nothing.
C8_AssertFinite ==
    /\ af_examined = [k \in 1..Len(af_examined) |-> k]
    /\ \A k \in 1..(Len(af_examined) - 1) : ~NotFinite(af_args[k])
    /\ af_status = "aborted" =>
            /\ Len(af_examined) >= 1
            /\ NotFinite(af_args[Len(af_examined)])
    /\ af_status = "returned" =>
            /\ Len(af_examined) = Len(af_args)
            /\ \A k \in 1..Len(af_args) : ~NotFinite(af_args[k])
    /\ (Len(af_args) = 0 /\ af_status # "ready") =>
            /\ af_examined = <<>>
            /\ af_status \in {"running", "returned"}

\* the call aborted at the first of two arguments, the second one, not
\* finite either, unexamined
C8_Witness ==
    /\ af_status = "aborted"
    /\ Len(af_args) = 2
    /\ af_examined = <<1>>
    /\ NotFinite(af_args[2])

====
